---------------------------- MODULE Spec2Model ----------------------------
(***************************************************************************)
(* Model of the reindexing engine of georef-ar-api,                        *)
(* src/service/management/utils_script.py: GeorefIndex and run_index.      *)
(*                                                                         *)
(* The search engine (indices, their documents, the alias table) and the   *)
(* snapshot files are the shared state; run_index walks the configured     *)
(* collections one after the other and each engine or file call is one     *)
(* step that either succeeds or raises.                                    *)
(*                                                                         *)
(* Representation of strings that the code takes apart:                    *)
(*   - an index name '{alias}-{token}-{timestamp}' is the tuple of its     *)
(*     '-'-separated fields, so that split('-')[-1] is its last field;     *)
(*   - a version 'major.minor.patch' is the tuple of its '.'-separated     *)
(*     fields, so that split('.')[0] is its first field.                   *)
(* Python's None and the empty dict are both the empty tuple: the code     *)
(* only ever tests them with "not x".                                      *)
(***************************************************************************)
EXTENDS Integers, Sequences, FiniteSets, TLC

(***************************************************************************)
(* Bounds of the model.                                                    *)
(***************************************************************************)
\* dataset timestamps are 1..MaxTime
MaxTime == 2
\* the engine holds at most MaxIndices indices (its shard limit): creating
\* one more is refused
MaxIndices == 2
\* document lists of the ingest specification have at most MaxDocs documents
MaxDocs == 3
\* number of operations streaming_bulk sends to the engine in one request
ChunkSize == 2

(***************************************************************************)
(* Program constants and configuration.                                    *)
(***************************************************************************)
None == << >>

\* FILE_VERSION = '2.0.0'
FILE_VERSION == <<"2", "0", "0">>

\* Two of the collections run_index configures, in its order: one without
\* excludes under the default docs_key, and 'calles' with both overridden.
Collections == <<"provincias", "calles">>

Aliases == {Collections[i] : i \in DOMAIN Collections}

excludes(alias) == IF alias = "calles" THEN {"codigo_postal"} ELSE {}

docs_key(alias) == IF alias = "calles" THEN "vias" ELSE "entidades"

\* uuid.uuid4().hex[:8]: the values the random token can take
Tokens == {"a", "b"}

Timestamps == 1..MaxTime

\* version strings a dataset can carry: a minor mismatch and a major one
Versions == {<<"2", "1", "0">>, <<"1", "0", "0">>}

\* time zones of the host: one with a constant UTC offset, and one whose
\* clocks are set back (end of daylight saving time) inside the timeline
Zones == {"fixed", "dst"}

(***************************************************************************)
(* Documents: dicts from field names to values.                            *)
(***************************************************************************)
DocA == [id |-> "1", nombre |-> "a"]
DocB == [id |-> "1", nombre |-> "b"]
DocN == [nombre |-> "c"]
DocP == [id |-> "2", nombre |-> "d", codigo_postal |-> "x"]
DocX == [id |-> "3", nombre |-> "bad"]

Docs == {DocA, DocB, DocN, DocP, DocX}

Min(a, b) == IF a < b THEN a ELSE b

\* a dataset as json.load returns it
MkData(alias, timestamp, version, docs) ==
    [k \in {"timestamp", "version", docs_key(alias)} |->
        IF k = "timestamp" THEN timestamp
        ELSE IF k = "version" THEN version
        ELSE docs]

VARIABLES
    tz,          \* time zone of the host (never changes)
    indices,     \* engine: index name -> (document id -> stored source)
    aliases,     \* engine: alias -> set of index names it resolves to
    snapshot,    \* file system: alias -> content of the backup file, or None
    ingested,    \* index names on which insert_documents ran to its end
    configured,  \* run_index: the list of collections it walks (constant)
    forced,      \* run_index's forced argument
    cur,         \* position in run_index's for loop (0: not running)
    pc,          \* the statement the current collection's pipeline is at
    source,      \* which source create_or_reindex is working on
    data,        \* create_or_reindex: data
    ok,          \* create_or_reindex: ok
    check_timestamp, \* create_or_reindex_with_data: check_timestamp
    new_index,   \* create_or_reindex_with_data: new_index
    old_index,   \* create_or_reindex_with_data: old_index
    pos,         \* insert_documents: documents consumed from the generator
    creations,   \* insert_documents: creations
    errors,      \* insert_documents: errors
    reported,    \* insert_documents: ids of the documents logged as errors
    submitted,   \* operations handed to the engine by streaming_bulk
    issued,      \* requests and decisions logged for the current collection
    result,      \* how the current collection's create_or_reindex ended
    pre,         \* engine and files as create_or_reindex found them
    parked       \* the other pipeline, when two run side by side, or None

vars == <<tz, indices, aliases, snapshot, ingested, configured, forced, cur,
          pc, source, data, ok, check_timestamp, new_index, old_index, pos,
          creations, errors, reported, submitted, issued, result, pre,
          parked>>

engine == <<indices, aliases>>
locals == <<source, data, ok, check_timestamp, new_index, old_index>>
ingest == <<pos, creations, errors, reported, submitted>>
frame == <<tz, pre, configured, forced, cur, parked>>

alias == configured[cur]


(***************************************************************************)
(* Pure functions of GeorefIndex.                                          *)
(***************************************************************************)
\* the whole version instead of its first field
WholeVersion(version) == version

\* version.split('.')[0]
Major(version) == version[1]

\* '{}-{}-{}'.format(self.alias, uuid.uuid4().hex[:8], timestamp)
IndexName(a, token, timestamp) == <<a, token, timestamp>>

\* index.split('-')[-1]
LastField(index) == index[Len(index)]

\* datetime.fromtimestamp(t): the naive local wall-clock time of instant t,
\* which is t plus the UTC offset in force at t.  In the "dst" zone the
\* clocks are two units ahead before instant 2 and are set back at it, so
\* the wall-clock times of the instants 1, 2, 3, 4 are 3, 2, 3, 4.  Naive
\* datetimes compare by wall-clock time alone (their fold is ignored).
fromtimestamp(t) == IF tz = "dst" /\ t < 2 THEN t + 2 ELSE t

\* check_index_newer(self, new_index, old_index)
check_index_newer(new, old) ==
    IF old = None
    THEN TRUE
    ELSE fromtimestamp(LastField(new)) > fromtimestamp(LastField(old))

\* a lookup that is not restricted to the collection's own alias
get_old_index_of_any_alias(a) ==
    IF UNION {aliases[b] : b \in Aliases} = {} THEN {None}
    ELSE UNION {aliases[b] : b \in Aliases}

\* get_old_index(self, es): the values it can return.  The first key of
\* get_alias' answer is any of the indices the alias resolves to.
get_old_index(a) == IF aliases[a] = {} THEN {None} ELSE aliases[a]

\* a filter that keeps every field
filter_doc_keeping_all(a, doc) == doc

\* filter_doc(self, doc)
filter_doc(a, doc) == [key \in DOMAIN doc \ excludes(a) |-> doc[key]]

\* bulk_update_generator: doc['id'] raises KeyError for such a document
RaisesKeyError(a, doc) == "id" \notin DOMAIN filter_doc(a, doc)

\* an operation that stores the document whether or not its id exists
BulkActionIndex(a, doc, index) ==
    [op_type |-> "index", type |-> "_doc", id |-> filter_doc(a, doc).id,
     index |-> index, source |-> filter_doc(a, doc)]

\* bulk_update_generator: the operation yielded for one document
BulkAction(a, doc, index) ==
    [op_type |-> "create", type |-> "_doc", id |-> filter_doc(a, doc).id,
     index |-> index, source |-> filter_doc(a, doc)]

\* alias_ops without its 'remove' action
alias_ops_add_only(a, index, old) ==
    <<[op |-> "add", index |-> index, alias |-> a]>>

\* update_aliases: the actions of the request it builds
alias_ops(a, index, old) ==
    (IF old # None THEN <<[op |-> "remove", index |-> old, alias |-> a]>>
     ELSE << >>)
    \o <<[op |-> "add", index |-> index, alias |-> a]>>

(***************************************************************************)
(* The engine's side of the calls.                                         *)
(***************************************************************************)
\* one alias action applied to the alias table
ApplyAliasOp(table, o) ==
    [table EXCEPT ![o.alias] = IF o.op = "add" THEN @ \cup {o.index}
                               ELSE @ \ {o.index}]

RECURSIVE ApplyAliasOps(_, _)
ApplyAliasOps(table, ops) ==
    IF ops = << >> THEN table
    ELSE ApplyAliasOps(ApplyAliasOp(table, Head(ops)), Tail(ops))

\* es.indices.update_aliases({'actions': ops}): the alias table after the
\* request.  The engine applies all the actions of one request or none.
EsUpdateAliases(table, ops, fails) ==
    IF fails THEN table ELSE ApplyAliasOps(table, ops)

\* the documents the mapping of an index refuses
EsRejects(doc) == doc.nombre = "bad"

\* The operations acts[i..] applied in order to an index holding
\* `stored`: an operation is refused when the mapping refuses the document
\* or when it is a 'create' and the index already holds its id; any other
\* operation stores the document under its id.  Gives the documents stored
\* and the positions answered with an error.
RECURSIVE EsBulkCreate(_, _, _, _)
EsBulkCreate(stored, acts, i, failed) ==
    IF i > Len(acts) THEN [stored |-> stored, failed |-> failed]
    ELSE IF \/ EsRejects(acts[i].source)
            \/ acts[i].op_type = "create" /\ acts[i].id \in DOMAIN stored
         THEN EsBulkCreate(stored, acts, i + 1, failed \cup {i})
         ELSE EsBulkCreate((acts[i].id :> acts[i].source) @@ stored,
                           acts, i + 1, failed)

(***************************************************************************)
(* What the sources can hold.                                              *)
(***************************************************************************)
\* every list of at most n documents
DocLists(n) == UNION {[1..k -> Docs] : k \in 0..n}

\* the document lists the primary sources of the pipeline serve: none, a
\* list the engine takes in more than one request, one with a document
\* that has no id
SourceDocs == {<< >>, <<DocA, DocP, DocB>>, <<DocA, DocN>>}

\* fetch_data(self.filepath): what it can return, None when it fails
PrimaryData(a) ==
    {None} \cup {MkData(a, t, v, d) :
                    t \in Timestamps, v \in Versions, d \in SourceDocs}

\* fetch_data(self.backup_filepath): the snapshot file's content, None when
\* the file is missing or unreadable
BackupData(a) == {None, snapshot[a]}

(***************************************************************************)
(* Initial states: an engine without indices, no snapshot files.           *)
(***************************************************************************)
Fresh ==
    /\ tz \in Zones
    /\ indices = << >>
    /\ aliases = [a \in Aliases |-> {}]
    /\ snapshot = [a \in Aliases |-> None]
    /\ ingested = {}
    /\ parked = None

\* run_index is not running
Idle ==
    /\ forced = FALSE
    /\ cur = 0
    /\ pc = "idle"
    /\ source = "none"
    /\ data = None
    /\ ok = FALSE
    /\ check_timestamp = FALSE
    /\ new_index = None
    /\ old_index = None
    /\ pos = 0
    /\ creations = 0
    /\ errors = 0
    /\ reported = << >>
    /\ submitted = << >>
    /\ issued = {}
    /\ result = "none"
    /\ pre = None

\* Spec follows one collection, the one with excludes, through run after
\* run of run_index
Init ==
    /\ Fresh
    /\ Idle
    /\ configured = <<"calles">>

(***************************************************************************)
(* Control flow shared by the steps.                                       *)
(***************************************************************************)
\* the request or decision `what` is logged for the current source
Log(what) == issued' = issued \cup {<<source, what>>}

\* create_or_reindex_with_data returns b to create_or_reindex
Return(b) ==
    /\ ok' = b
    /\ pc' = "returned"
    /\ new_index' = None
    /\ old_index' = None
    /\ UNCHANGED <<source, data, check_timestamp, result>>

\* an exception of class `kind` leaves create_or_reindex and is caught and
\* logged by run_index
Raise(kind) ==
    /\ result' = kind
    /\ pc' = "done"
    /\ new_index' = None
    /\ old_index' = None
    /\ UNCHANGED <<source, data, ok, check_timestamp>>

(***************************************************************************)
(* run_index and create_or_reindex.                                        *)
(***************************************************************************)
\* run_index(app, es, forced) is called: the for loop starts
RunIndex ==
    /\ pc = "idle"
    /\ forced' \in BOOLEAN
    /\ cur' = 1
    /\ pc' = "fetch_primary"
    /\ issued' = {}
    /\ result' = "pending"
    /\ pre' = [indices |-> indices, aliases |-> aliases,
               snapshot |-> snapshot]
    /\ UNCHANGED <<tz, engine, snapshot, ingested, configured, locals,
                   ingest, parked>>

\* a primary pipeline that consults the comparator in every run
check_timestamp_in_every_run == TRUE

\* create_or_reindex, line 132: check_timestamp=not forced
primary_check_timestamp == ~forced

\* create_or_reindex, line 130: data = self.fetch_data(self.filepath)
FetchPrimary ==
    /\ pc = "fetch_primary"
    /\ data' \in PrimaryData(alias)
    /\ source' = "primary"
    /\ check_timestamp' = primary_check_timestamp
    /\ pc' = "with_data"
    /\ issued' = issued \cup {<<"primary", "fetch">>}
    /\ UNCHANGED <<frame, engine, snapshot, ingested, ok, new_index,
                   old_index, ingest, result>>

\* create_or_reindex_with_data, lines 152 to 185: up to the decision to build
CreateOrReindexWithData ==
    /\ pc = "with_data"
    /\ UNCHANGED <<frame, engine, snapshot, ingested, ingest>>
    /\ IF data = None
       THEN Log("no_data") /\ Return(FALSE)
       ELSE IF Major(data.version) # Major(FILE_VERSION)
       THEN Log("incompatible") /\ Return(FALSE)
       ELSE \E token \in Tokens, fails \in BOOLEAN :
              IF fails
              THEN Log("get_old_index") /\ Raise("EngineError")
              ELSE \E old \in get_old_index(alias) :
                    LET new == IndexName(alias, token, data.timestamp) IN
                    IF check_timestamp
                    THEN IF ~check_index_newer(new, old)
                         THEN /\ issued' = issued \cup
                                    {<<source, "get_old_index">>,
                                     <<source, "check_index_newer">>,
                                     <<source, "stale">>}
                              /\ Return(FALSE)
                         ELSE /\ issued' = issued \cup
                                    {<<source, "get_old_index">>,
                                     <<source, "check_index_newer">>}
                              /\ new_index' = new
                              /\ old_index' = old
                              /\ pc' = "create_index"
                              /\ UNCHANGED <<source, data, ok,
                                             check_timestamp, result>>
                    ELSE /\ Log("get_old_index")
                         /\ new_index' = new
                         /\ old_index' = old
                         /\ pc' = "create_index"
                         /\ UNCHANGED <<source, data, ok, check_timestamp,
                                        result>>

(***************************************************************************)
(* create_index, insert_documents, update_aliases, delete_index.           *)
(***************************************************************************)
\* create_index (line 187): es.indices.create raises when the engine fails,
\* when an index of that name exists or when the engine is full
CreateIndex ==
    /\ pc = "create_index"
    /\ Log("create_index")
    /\ \E fails \in BOOLEAN :
         IF \/ fails
            \/ new_index \in DOMAIN indices
            \/ Cardinality(DOMAIN indices) >= MaxIndices
         THEN Raise("EngineError") /\ UNCHANGED <<indices, ingest>>
         ELSE /\ indices' = indices @@ (new_index :> << >>)
              /\ pc' = "insert_documents"
              /\ pos' = 0
              /\ creations' = 0
              /\ errors' = 0
              /\ reported' = << >>
              /\ submitted' = << >>
              /\ UNCHANGED <<locals, result>>
    /\ UNCHANGED <<frame, aliases, snapshot, ingested>>

\* the documents insert_documents was given
docs == data[docs_key(alias)]

\* the operations bulk_update_generator yields for docs[from + 1 .. to]
Operations(a, ds, index, from, to) ==
    [i \in 1..(to - from) |-> BulkAction(a, ds[from + i], index)]

\* insert_documents, lines 223 to 230: the ids logged for the operations
\* answered with an error, in the order of the answers
ErrorIds(acts, failed) ==
    [k \in 1..Cardinality(failed) |->
        acts[CHOOSE i \in failed :
                Cardinality({j \in failed : j < i}) = k - 1].id]

\* a for loop that is left after the first request
ExhaustedAfterFirstRequest(p, ds) == p >= Min(ChunkSize, Len(ds))

\* the for loop of insert_documents ends when the generator is exhausted
Exhausted(p, ds) == p = Len(ds)

\* streaming_bulk's own default for raise_on_error
raise_on_error_default == TRUE

\* streaming_bulk(..., raise_on_error=False, ...): an operation the engine
\* refuses is answered, not raised
raise_on_error == FALSE

\* insert_documents, lines 217 to 230: streaming_bulk draws the next
\* ChunkSize operations from the generator, sends them in one request and
\* the loop tallies the answers.  A document without id raises KeyError in
\* the generator while the request is assembled; a failing request raises.
InsertChunk ==
    /\ pc = "insert_documents"
    /\ ~Exhausted(pos, docs)
    /\ Log("insert_documents")
    /\ LET to == Min(pos + ChunkSize, Len(docs)) IN
       IF \E i \in (pos + 1)..to : RaisesKeyError(alias, docs[i])
       THEN Raise("KeyError") /\ UNCHANGED <<indices, ingest>>
       ELSE \E fails \in BOOLEAN :
            LET acts == Operations(alias, docs, new_index, pos, to)
                res == EsBulkCreate(indices[new_index], acts, 1, {})
            IN
            IF fails
            THEN Raise("EngineError") /\ UNCHANGED <<indices, ingest>>
            ELSE /\ indices' = [indices EXCEPT ![new_index] = res.stored]
                 /\ IF raise_on_error /\ res.failed # {}
                    THEN Raise("BulkIndexError") /\ UNCHANGED ingest
                    ELSE /\ pos' = to
                         /\ creations' = creations + (to - pos)
                                              - Cardinality(res.failed)
                         /\ errors' = errors + Cardinality(res.failed)
                         /\ reported' = reported \o ErrorIds(acts, res.failed)
                         /\ submitted' = submitted \o acts
                         /\ UNCHANGED <<pc, locals, result>>
    /\ UNCHANGED <<frame, aliases, snapshot, ingested>>

\* insert_documents, lines 232 to 236: the generator is exhausted, the
\* summary is logged and insert_documents returns
InsertSummary ==
    /\ pc = "insert_documents"
    /\ Exhausted(pos, docs)
    /\ Log("insert_documents")
    /\ ingested' = ingested \cup {new_index}
    /\ pc' = "update_aliases"
    /\ UNCHANGED <<frame, engine, snapshot, locals, ingest, result>>

\* update_aliases (line 190): one request with all the alias actions
UpdateAliases ==
    /\ pc = "update_aliases"
    /\ Log("update_aliases")
    /\ \E fails \in BOOLEAN :
         /\ aliases' = EsUpdateAliases(aliases,
                          alias_ops(alias, new_index, old_index), fails)
         /\ IF fails
            THEN Raise("EngineError")
            ELSE IF old_index # None
                 THEN pc' = "delete_index" /\ UNCHANGED <<locals, result>>
                 ELSE Return(TRUE)
    /\ UNCHANGED <<frame, indices, snapshot, ingested, ingest>>

\* delete_index (lines 191, 192): es.indices.delete(old_index); the engine
\* drops a deleted index from every alias
DeleteIndex ==
    /\ pc = "delete_index"
    /\ Log("delete_index")
    /\ \E fails \in BOOLEAN :
         IF fails
         THEN Raise("EngineError") /\ UNCHANGED <<engine, ingested>>
         ELSE /\ indices' = [n \in DOMAIN indices \ {old_index} |-> indices[n]]
              /\ aliases' = [a \in DOMAIN aliases |-> aliases[a] \ {old_index}]
              /\ ingested' = ingested \ {old_index}
              /\ Return(TRUE)
    /\ UNCHANGED <<frame, snapshot, ingest>>

(***************************************************************************)
(* create_or_reindex after the primary pipeline, and run_index's loop.     *)
(***************************************************************************)
\* the condition of line 134 without its test of forced
TryBackupUnforced == ~ok

\* create_or_reindex, line 134: if forced and not ok
TryBackup == forced /\ ~ok

\* create_or_reindex_with_data's own default for check_timestamp
check_timestamp_default == TRUE

\* create_or_reindex, line 141: check_timestamp=False
backup_check_timestamp == FALSE

\* create_or_reindex, lines 134 to 141: the primary pipeline was not ok in a
\* forced run, the backup is read
FetchBackup ==
    /\ pc = "returned"
    /\ source = "primary"
    /\ TryBackup
    /\ data' \in BackupData(alias)
    /\ source' = "backup"
    /\ check_timestamp' = backup_check_timestamp
    /\ pc' = "with_data"
    /\ issued' = issued \cup {<<"backup", "fetch">>}
    /\ UNCHANGED <<frame, engine, snapshot, ingested, ok, new_index,
                   old_index, ingest, result>>

\* a snapshot write that does not look at ok
WritesBackupWhateverOk == TRUE

\* create_or_reindex, line 148: if ok
WritesBackup == ok

\* create_or_reindex, lines 148, 149 and write_backup: open(path, 'w')
\* truncates the file before json.dump fills it, so a failing write leaves
\* the old content (open failed) or an unreadable file
WriteBackup ==
    /\ pc = "returned"
    /\ WritesBackup
    /\ Log("write_backup")
    /\ \E fails \in BOOLEAN :
         IF fails
         THEN /\ snapshot' \in {snapshot, [snapshot EXCEPT ![alias] = None]}
              /\ Raise("OSError")
         ELSE /\ snapshot' = [snapshot EXCEPT ![alias] = data]
              /\ result' = "ok"
              /\ pc' = "done"
              /\ UNCHANGED locals
    /\ UNCHANGED <<frame, engine, ingested, ingest>>

\* create_or_reindex, lines 143 to 148 with ok false: nothing more is done
NotOk ==
    /\ pc = "returned"
    /\ ~ok
    /\ ~(source = "primary" /\ TryBackup)
    /\ result' = IF forced THEN "failed" ELSE "skipped"
    /\ pc' = "done"
    /\ UNCHANGED <<frame, engine, snapshot, ingested, locals, ingest, issued>>

\* the classes of the exceptions create_or_reindex can raise
Exceptions == {"EngineError", "KeyError", "BulkIndexError", "OSError"}

\* a for loop that an exception raised in its body ends
MoreCollectionsUnlessRaised ==
    cur < Len(configured) /\ result \notin Exceptions

\* run_index, line 379: the for loop has collections left; the try of lines
\* 380 to 382 keeps every exception inside the loop's body
MoreCollections == cur < Len(configured)

\* run_index, lines 379 to 385: the loop goes on with the next collection,
\* whether create_or_reindex returned or raised
NextIndex ==
    /\ pc = "done"
    /\ IF MoreCollections
       THEN /\ cur' = cur + 1
            /\ pc' = "fetch_primary"
            /\ result' = "pending"
            /\ pre' = [indices |-> indices, aliases |-> aliases,
                       snapshot |-> snapshot]
       ELSE /\ cur' = 0
            /\ pc' = "idle"
            /\ result' = "none"
            /\ pre' = None
    /\ forced' = (forced /\ MoreCollections)
    /\ source' = "none"
    /\ data' = None
    /\ ok' = FALSE
    /\ check_timestamp' = FALSE
    /\ new_index' = None
    /\ old_index' = None
    /\ pos' = 0
    /\ creations' = 0
    /\ errors' = 0
    /\ reported' = << >>
    /\ submitted' = << >>
    /\ issued' = {}
    /\ UNCHANGED <<tz, engine, snapshot, ingested, configured, parked>>

Next ==
    \/ RunIndex
    \/ FetchPrimary
    \/ CreateOrReindexWithData
    \/ CreateIndex
    \/ InsertChunk
    \/ InsertSummary
    \/ UpdateAliases
    \/ DeleteIndex
    \/ FetchBackup
    \/ WriteBackup
    \/ NotOk
    \/ NextIndex

Spec == Init /\ [][Next]_vars

(***************************************************************************)
(* SpecIngest: one create_or_reindex_with_data on an engine without        *)
(* indices, up to the end of insert_documents, for every dataset of at     *)
(* most MaxDocs documents and either collection.  It starts where          *)
(* fetch_data has just returned the primary dataset.                       *)
(***************************************************************************)
IngestData(a) ==
    {MkData(a, t, v, d) :
        t \in Timestamps, v \in Versions, d \in DocLists(MaxDocs)}

InitIngest ==
    /\ Fresh
    /\ configured \in {<<Collections[i]>> : i \in DOMAIN Collections}
    /\ forced \in BOOLEAN
    /\ cur = 1
    /\ pc = "with_data"
    /\ source = "primary"
    /\ data \in IngestData(configured[1])
    /\ ok = FALSE
    /\ check_timestamp = primary_check_timestamp
    /\ new_index = None
    /\ old_index = None
    /\ pos = 0
    /\ creations = 0
    /\ errors = 0
    /\ reported = << >>
    /\ submitted = << >>
    /\ issued = {<<"primary", "fetch">>}
    /\ result = "pending"
    /\ pre = [indices |-> indices, aliases |-> aliases, snapshot |-> snapshot]

NextIngest ==
    \/ CreateOrReindexWithData
    \/ CreateIndex
    \/ InsertChunk
    \/ InsertSummary

SpecIngest == InitIngest /\ [][NextIngest]_vars

(***************************************************************************)
(* SpecNewer: check_index_newer applied to every pair of index names (and  *)
(* to no old index) of the two collections.                                *)
(***************************************************************************)
IndexNames ==
    {IndexName(a, token, t) : a \in Aliases, token \in Tokens,
                              t \in Timestamps}

InitNewer ==
    /\ Fresh
    /\ configured = Collections
    /\ forced = FALSE
    /\ cur = 1
    /\ pc = "check_index_newer"
    /\ source = "primary"
    /\ data = None
    /\ ok = FALSE
    /\ check_timestamp = TRUE
    /\ new_index \in IndexNames
    /\ old_index \in IndexNames \cup {None}
    /\ pos = 0
    /\ creations = 0
    /\ errors = 0
    /\ reported = << >>
    /\ submitted = << >>
    /\ issued = {}
    /\ result = "pending"
    /\ pre = None

\* ok receives check_index_newer(new_index, old_index)
CheckIndexNewer ==
    /\ pc = "check_index_newer"
    /\ ok' = check_index_newer(new_index, old_index)
    /\ pc' = "checked"
    /\ UNCHANGED <<frame, engine, snapshot, ingested, source, data,
                   check_timestamp, new_index, old_index, ingest, issued,
                   result>>

NextNewer == CheckIndexNewer

SpecNewer == InitNewer /\ [][NextNewer]_vars

(***************************************************************************)
(* SpecBatch: run_index walking both collections, run after run.  Every    *)
(* call returns or raises (the requests carry a timeout), so a step that   *)
(* can be taken is eventually taken.                                       *)
(***************************************************************************)
InitBatch ==
    /\ Fresh
    /\ Idle
    /\ configured = Collections

\* what the primary sources serve here: nothing, or a dataset of the first
\* timestamp with no document or with a document that has no id
BatchData(a) ==
    {d \in PrimaryData(a) :
        \/ d = None
        \/ /\ d.timestamp = Min(1, MaxTime)
           /\ d[docs_key(a)] \in {<< >>, <<DocA, DocN>>}}

FetchPrimaryBatch == FetchPrimary /\ data' \in BatchData(alias)

NextBatch ==
    \/ RunIndex
    \/ FetchPrimaryBatch
    \/ CreateOrReindexWithData
    \/ CreateIndex
    \/ InsertChunk
    \/ InsertSummary
    \/ UpdateAliases
    \/ DeleteIndex
    \/ FetchBackup
    \/ WriteBackup
    \/ NotOk
    \/ NextIndex

SpecBatch == InitBatch /\ [][NextBatch]_vars /\ WF_vars(NextBatch)

(***************************************************************************)
(* SpecPar: the pipelines of the two collections, create_or_reindex of     *)
(* each called once, running side by side on an engine where each          *)
(* collection may have an index from an earlier run.  One pipeline is the  *)
(* current one, the other is parked; Switch hands over between them after  *)
(* any step.                                                               *)
(***************************************************************************)
\* the current pipeline: its position in the list and its locals
Pipeline ==
    [cur |-> cur, pc |-> pc, source |-> source, data |-> data, ok |-> ok,
     check_timestamp |-> check_timestamp, new_index |-> new_index,
     old_index |-> old_index, pos |-> pos, creations |-> creations,
     errors |-> errors, reported |-> reported, submitted |-> submitted,
     issued |-> issued, result |-> result, pre |-> pre]

\* the other pipeline takes the next step
Switch ==
    /\ parked # None
    /\ parked.pc # "done"
    /\ parked' = Pipeline
    /\ cur' = parked.cur
    /\ pc' = parked.pc
    /\ source' = parked.source
    /\ data' = parked.data
    /\ ok' = parked.ok
    /\ check_timestamp' = parked.check_timestamp
    /\ new_index' = parked.new_index
    /\ old_index' = parked.old_index
    /\ pos' = parked.pos
    /\ creations' = parked.creations
    /\ errors' = parked.errors
    /\ reported' = parked.reported
    /\ submitted' = parked.submitted
    /\ issued' = parked.issued
    /\ result' = parked.result
    /\ pre' = parked.pre
    /\ UNCHANGED <<tz, engine, snapshot, ingested, configured, forced>>

\* the dataset an earlier run left behind, and the name of its index
EarlierData(a) == MkData(a, 1, <<"2", "1", "0">>, <<DocA>>)

EarlierIndex(a) == IndexName(a, "b", EarlierData(a).timestamp)

InitPar ==
    /\ tz \in Zones
    /\ \E present \in SUBSET Aliases :
          /\ indices = [n \in {EarlierIndex(a) : a \in present} |->
                          (DocA.id :> filter_doc(n[1], DocA))]
          /\ aliases = [a \in Aliases |->
                          IF a \in present THEN {EarlierIndex(a)} ELSE {}]
          /\ snapshot = [a \in Aliases |->
                          IF a \in present THEN EarlierData(a) ELSE None]
          /\ ingested = {EarlierIndex(a) : a \in present}
    /\ configured = Collections
    /\ forced \in BOOLEAN
    /\ cur = 1
    /\ pc = "fetch_primary"
    /\ source = "none"
    /\ data = None
    /\ ok = FALSE
    /\ check_timestamp = FALSE
    /\ new_index = None
    /\ old_index = None
    /\ pos = 0
    /\ creations = 0
    /\ errors = 0
    /\ reported = << >>
    /\ submitted = << >>
    /\ issued = {}
    /\ result = "pending"
    /\ pre = [indices |-> indices, aliases |-> aliases, snapshot |-> snapshot]
    /\ parked = [Pipeline EXCEPT !.cur = 2]

\* what the primary sources serve here: nothing, or a dataset of three
\* documents, two of them with the same id
ParData(a) ==
    {d \in PrimaryData(a) :
        d = None \/ d[docs_key(a)] = <<DocA, DocP, DocB>>}

FetchPrimaryPar == FetchPrimary /\ data' \in ParData(alias)

NextPar ==
    \/ FetchPrimaryPar
    \/ CreateOrReindexWithData
    \/ CreateIndex
    \/ InsertChunk
    \/ InsertSummary
    \/ UpdateAliases
    \/ DeleteIndex
    \/ FetchBackup
    \/ WriteBackup
    \/ NotOk
    \/ Switch

SpecPar == InitPar /\ [][NextPar]_vars

(***************************************************************************)
(* Properties.                                                             *)
(***************************************************************************)
\* C1: in every reachable state every alias resolves to at most one index;
\* an alias that resolves to an index never resolves to none afterwards;
\* and the step in which update_aliases succeeds leaves the alias resolving
\* to exactly the new index (the engine applies the request's 'remove' and
\* 'add' together or not at all, whichever call fails).
C1_AliasSwapAtomic ==
    /\ [](\A a \in Aliases : Cardinality(aliases[a]) <= 1)
    /\ [][\A a \in Aliases : aliases[a] # {} => aliases'[a] # {}]_vars
    /\ [][pc = "update_aliases" /\ pc' \in {"delete_index", "returned"}
            => aliases'[alias] = {new_index}]_vars

\* C1, witness: update_aliases has just moved the alias from an existing
\* old index to the new one
C1_Witness ==
    /\ pc = "delete_index"
    /\ old_index \in DOMAIN indices
    /\ old_index \in UNION {pre.aliases[a] : a \in Aliases}
    /\ aliases[alias] = {new_index}

\* C2: an alias only resolves to indices on which insert_documents ran to
\* its end; when update_aliases is reached every document of the dataset
\* has been submitted and tallied; and a step of insert_documents changes
\* neither the alias table nor any index but the new one.
C2_NoPartialIndexVisible ==
    /\ [](\A a \in Aliases : aliases[a] \subseteq ingested)
    /\ [](pc = "update_aliases" =>
            /\ new_index \in ingested
            /\ Len(submitted) = Len(docs)
            /\ creations + errors = Len(docs))
    /\ [][pc = "insert_documents" =>
            /\ aliases' = aliases
            /\ \A n \in DOMAIN indices \ {new_index} :
                  n \in DOMAIN indices' /\ indices'[n] = indices[n]]_vars

\* C2, witness: the new index holds a part of the dataset while the alias
\* resolves to the old, complete, index
C2_Witness ==
    /\ pc = "insert_documents"
    /\ 0 < pos /\ pos < Len(docs)
    /\ aliases[alias] # {}
    /\ new_index \notin aliases[alias]

\* the comparison of C3: no old index, or the last field of the new name
\* strictly exceeds the last field of the old one
NewerByTimestamp(new, old) ==
    old = None \/ LastField(new) > LastField(old)

\* C3: check_index_newer(new_index, old_index) is true when there is no
\* old index and otherwise exactly when the timestamp embedded in new_index
\* strictly exceeds the one embedded in old_index.
C3_NewerIsTimestampOrder ==
    pc = "checked" => ok = NewerByTimestamp(new_index, old_index)

\* the requests that change the engine
Writes == {"create_index", "insert_documents", "update_aliases",
           "delete_index"}

\* engine and files are as create_or_reindex found them
Untouched ==
    /\ indices = pre.indices
    /\ aliases = pre.aliases
    /\ snapshot = pre.snapshot

\* C4, as claimed: whenever the primary dataset's major version differs
\* from FILE_VERSION's, forced or not, create_or_reindex ends with the
\* indices and the alias as it found them.
C4_IncompatibleLeavesUntouched ==
    pc = "done" /\ <<"primary", "incompatible">> \in issued
        => indices = pre.indices /\ aliases = pre.aliases

\* C4, amended: a primary dataset whose major version differs from
\* FILE_VERSION's makes the primary pipeline return 'not ok' with engine and
\* files untouched; create_or_reindex ends with them untouched when the run
\* is not forced, or when the backup pipeline of a forced run is not ok
\* either.  A dataset that differs in minor or patch only is never rejected
\* as incompatible.
C4_IncompatibleSkipped ==
    /\ pc \in {"returned", "done"} /\ source = "primary" /\ data # None
         /\ data.version[1] # FILE_VERSION[1]
         => ~ok /\ Untouched /\ (pc = "done" => ~forced /\ result = "skipped")
    /\ pc = "done" /\ <<"primary", "incompatible">> \in issued
         /\ result \in {"skipped", "failed"}
         => Untouched
    /\ pc \in {"returned", "done"} /\ data # None
         /\ data.version[1] = FILE_VERSION[1]
         => <<source, "incompatible">> \notin issued

\* C4, witness: a non-forced run has skipped an incompatible dataset and
\* the alias resolves to the index of an earlier run
C4_Witness ==
    /\ pc = "done"
    /\ result = "skipped"
    /\ <<"primary", "incompatible">> \in issued
    /\ aliases[alias] # {}

\* C5: when the primary pipeline of a non-forced run is not ok, engine and
\* snapshot file are as create_or_reindex found them, the backup was not
\* read, and no index creation, ingest, alias update, index deletion or
\* snapshot write was issued.
C5_UnforcedNotOkIsNoOp ==
    ~forced /\ (\/ pc = "returned" /\ ~ok
                \/ pc = "done" /\ result \in {"skipped", "failed"})
        => /\ Untouched
           /\ result \in {"pending", "skipped"}
           /\ \A e \in issued :
                e[1] = "primary" /\ e[2] \notin Writes \cup {"write_backup"}

\* C5, witness: a non-forced run has skipped a dataset that is not newer
\* than the aliased index
C5_Witness ==
    /\ pc = "done"
    /\ ~forced
    /\ result = "skipped"
    /\ <<"primary", "stale">> \in issued

\* C6: a dataset that is absent, or present with an empty document list,
\* is not attempted: no index is created for it and the pipeline is not ok.
C6_EmptyDatasetNotAttempted ==
    cur > 0 /\ pc \notin {"idle", "fetch_primary"}
        /\ (data = None \/ docs = << >>)
        => /\ pc \in {"with_data", "returned", "done"}
           /\ ~ok
           /\ \A e \in issued : e[2] \notin Writes

\* the number of documents of ds for which the generator raises KeyError
Idless(a, ds) == Cardinality({i \in DOMAIN ds : RaisesKeyError(a, ds[i])})

\* C7: insert_documents tolerates documents without id: it never raises
\* KeyError, and it completes with created + errored = processed and each
\* document without id counted as an error.
C7_MissingIdTolerated ==
    /\ result # "KeyError"
    /\ pc = "update_aliases" =>
         /\ creations + errors = Len(docs)
         /\ errors >= Idless(alias, docs)

\* position i of ds is refused by the engine: its mapping refuses the
\* document, or an earlier document it accepts carries the same id
Refused(a, ds, i) ==
    \/ EsRejects(filter_doc(a, ds[i]))
    \/ \E j \in 1..(i - 1) :
          /\ filter_doc(a, ds[j]).id = filter_doc(a, ds[i]).id
          /\ ~EsRejects(filter_doc(a, ds[j]))

\* C8: a document the engine refuses never aborts insert_documents: no
\* BulkIndexError is raised, KeyError is raised only for a dataset with a
\* document without id, and when insert_documents completes every document
\* was submitted, created + errored = processed, the created documents are
\* the ones the index holds and the logged errors are the ids of the
\* refused documents, one per refusal, in order.
C8_RejectionsDoNotAbort ==
    /\ result # "BulkIndexError"
    /\ result = "KeyError" => Idless(alias, docs) > 0
    /\ pc = "update_aliases" =>
         LET refused == {i \in DOMAIN docs : Refused(alias, docs, i)} IN
         /\ Len(submitted) = Len(docs)
         /\ creations + errors = Len(docs)
         /\ errors = Cardinality(refused)
         /\ creations = Cardinality(DOMAIN indices[new_index])
         /\ Len(reported) = errors
         /\ \A k \in DOMAIN reported :
              \E i \in refused :
                 /\ Cardinality({j \in refused : j < i}) = k - 1
                 /\ reported[k] = filter_doc(alias, docs[i]).id

\* C8, witness: insert_documents completed on a dataset whose second
\* document the engine refused and whose third it created
C8_Witness ==
    /\ pc = "update_aliases"
    /\ docs = <<DocA, DocX, DocP>>
    /\ creations = 2
    /\ errors = 1

\* C9: when delete_index fails after update_aliases succeeded, the alias
\* keeps resolving to the new index and create_or_reindex goes on to its
\* remaining step: the snapshot is written and the collection ends ok.
C9_DeleteFailureNotFatal ==
    pc = "done" /\ <<source, "delete_index">> \in issued
        /\ pre.aliases[alias] \subseteq DOMAIN indices
        => /\ aliases[alias] # pre.aliases[alias]
           /\ <<source, "write_backup">> \in issued
           /\ result \in {"ok", "OSError"}

\* C10, as claimed: a forced run whose primary fetch failed and that rebuilt
\* the index from the backup does not write the snapshot file.
C10_BackupRunWritesNoSnapshot ==
    pc = "done" /\ forced /\ <<"primary", "no_data">> \in issued
        /\ <<"backup", "update_aliases">> \in issued
        => <<"backup", "write_backup">> \notin issued

\* C10, amended: the backup pipeline never consults check_index_newer; a
\* readable, compatible backup is never 'not ok'; and when the pipeline on
\* the backup completes, a new index carrying the backup's timestamp was
\* created and ingested, the alias resolves to it, and the snapshot file
\* was written again with the backup data just read, so that its content
\* is what it was.
C10_BackupRunRebuilds ==
    /\ <<"backup", "check_index_newer">> \notin issued
    /\ pc = "done" /\ source = "backup" /\ data # None
         /\ data.version[1] = FILE_VERSION[1]
         => result # "failed"
    /\ pc = "done" /\ source = "backup" /\ result = "ok" =>
         /\ forced
         /\ {<<"backup", w>> : w \in {"create_index", "insert_documents",
                 "update_aliases", "write_backup"}} \subseteq issued
         /\ \E x \in aliases[alias] :
               /\ LastField(x) = data.timestamp
               /\ x \in ingested
               /\ x \notin DOMAIN pre.indices
         /\ snapshot[alias] = data
         /\ pre.snapshot[alias] = data

\* C10, witness: a forced run whose primary fetch failed has completed on
\* the backup
C10_Witness ==
    /\ pc = "done"
    /\ source = "backup"
    /\ result = "ok"
    /\ <<"primary", "no_data">> \in issued
    /\ <<"primary", "incompatible">> \notin issued

\* C11: run_index calls create_or_reindex for every configured collection
\* once per run and in order: an exception of any class leaves
\* create_or_reindex for the loop of run_index, the loop position only moves
\* to the next collection (where create_or_reindex starts) or, after the
\* last one, out of the loop, create_or_reindex only starts when the
\* position moves, and a run that started reaches the end of its last
\* collection.
C11_EveryCollectionAttempted ==
    /\ [](result \in Exceptions => pc = "done")
    /\ [][cur' # cur =>
            \/ cur' = cur + 1 /\ pc' = "fetch_primary"
            \/ cur = Len(configured) /\ cur' = 0 /\ pc' = "idle"]_vars
    /\ [][pc' = "fetch_primary" /\ pc # "fetch_primary" => cur' = cur + 1]_vars
    /\ [](cur = 1 => <>(cur = Len(configured) /\ pc = "done"))

\* C11, witness: the pipeline of the first collection raised after it had
\* created its index, and the second collection was processed and raised
\* as well
C11_Witness ==
    /\ cur = 2
    /\ pc = "done"
    /\ result \in Exceptions
    /\ \E n \in DOMAIN indices :
          n[1] = configured[1] /\ n \notin aliases[configured[1]]

\* what an empty index holds after the documents ds were ingested into it
StoredFrom(a, ds) ==
    EsBulkCreate(<< >>, Operations(a, ds, None, 0, Len(ds)), 1, {}).stored

\* alias a resolves to an index built from the dataset d
BuiltFrom(a, d) ==
    \E x \in aliases[a] :
        /\ x \in DOMAIN indices
        /\ LastField(x) = d.timestamp
        /\ indices[x] = StoredFrom(a, d[docs_key(a)])

\* C12: the snapshot file is written only after create_index,
\* insert_documents and update_aliases were issued on the same source in
\* the same run; when the write succeeds the file holds the dataset the
\* aliased index was built from; hence between runs a snapshot that is
\* present holds the dataset the aliased index was built from.
C12_SnapshotIsLastIngested ==
    /\ <<source, "write_backup">> \in issued =>
          {<<source, w>> : w \in {"create_index", "insert_documents",
                                   "update_aliases"}} \subseteq issued
    /\ pc = "done" /\ result = "ok" =>
          snapshot[alias] = data /\ BuiltFrom(alias, data)
    /\ pc = "idle" =>
          \A a \in Aliases :
             snapshot[a] # None => BuiltFrom(a, snapshot[a])

\* the current collection's pipeline ended with the alias moved to a new
\* index named after the dataset's timestamp and the snapshot holding the
\* dataset
Rebuilt ==
    /\ result = "ok"
    /\ \E y \in DOMAIN indices \ DOMAIN pre.indices :
          aliases[alias] = {y} /\ LastField(y) = data.timestamp
    /\ snapshot[alias] = data

\* C13: in a non-forced run with a compatible dataset and no failing call,
\* (run 1) a collection without alias gets a new index, the alias bound to
\* it and the snapshot written with the dataset; (run 2) a dataset with the
\* timestamp of the aliased index is skipped as stale, engine and snapshot
\* untouched; (run 3) a dataset with a greater timestamp than the aliased
\* index moves the alias to a new index, deletes the old index and
\* overwrites the snapshot.
C13_ThreeRuns ==
    pc = "done" /\ ~forced /\ data # None
        /\ Major(data.version) = Major(FILE_VERSION)
        /\ result \notin Exceptions
        => /\ pre.aliases[alias] = {} => Rebuilt
           /\ \A x \in pre.aliases[alias] :
                 LastField(x) = data.timestamp =>
                    /\ result = "skipped"
                    /\ <<"primary", "stale">> \in issued
                    /\ Untouched
           /\ \A x \in pre.aliases[alias] :
                 LastField(x) < data.timestamp =>
                    Rebuilt /\ x \notin DOMAIN indices

\* C14: a forced run never consults check_index_newer and never skips a
\* dataset as stale; its primary pipeline is never 'not ok' on a fetched,
\* compatible dataset; and unless a call raises it ends with the alias
\* moved to a new index named after the dataset's timestamp, whatever the
\* timestamp of the index the alias resolved to.
C14_ForcedSkipsComparator ==
    /\ forced => \A e \in issued : e[2] \notin {"check_index_newer", "stale"}
    /\ pc \in {"returned", "done"} /\ forced /\ source = "primary"
         /\ data # None /\ Major(data.version) = Major(FILE_VERSION)
         => /\ pc = "returned" => ok
            /\ pc = "done" => result \in {"ok"} \cup Exceptions
            /\ result = "ok" => Rebuilt

\* C14, witness: a forced run has replaced the aliased index by one built
\* from a dataset with a smaller timestamp
C14_Witness ==
    /\ pc = "done"
    /\ forced
    /\ source = "primary"
    /\ result = "ok"
    /\ \E x \in pre.aliases[alias] : LastField(x) > data.timestamp
    /\ \E y \in aliases[alias] : LastField(y) = data.timestamp

\* C15: the payload of every operation handed to the engine carries no
\* field of the collection's excludes, and carries every other field of
\* the document it was made from with the document's value.
C15_ExcludedFieldsNeverSubmitted ==
    \A k \in DOMAIN submitted :
        /\ DOMAIN submitted[k].source \cap excludes(alias) = {}
        /\ DOMAIN submitted[k].source = DOMAIN docs[k] \ excludes(alias)
        /\ \A f \in DOMAIN submitted[k].source :
              submitted[k].source[f] = docs[k][f]

\* C15, witness: a document of 'calles' that carries the excluded field
\* was submitted
C15_Witness ==
    /\ alias = "calles"
    /\ \E k \in DOMAIN submitted :
          /\ "codigo_postal" \in DOMAIN docs[k]
          /\ submitted[k].id = docs[k].id

\* the indices of collection b in the index table t, with what they hold
IndicesOf(b, t) == [n \in {m \in DOMAIN t : m[1] = b} |-> t[n]]

\* create_or_reindex_with_data of pipeline p, run on its own on the engine
\* and files e without a failing call: whether it builds an index named
\* with token
Accepts(p, token, e) ==
    /\ p.data # None
    /\ Major(p.data.version) = Major(FILE_VERSION)
    /\ p.check_timestamp =>
          \A old \in IF e.aliases[configured[p.cur]] = {} THEN {None}
                      ELSE e.aliases[configured[p.cur]] :
             check_index_newer(
                IndexName(configured[p.cur], token, p.data.timestamp), old)

\* create_or_reindex of pipeline p, run on its own on e without a failing
\* call: the engine and files it leaves
AloneOn(p, token, e) ==
    LET a == configured[p.cur]
        new == IndexName(a, token, p.data.timestamp)
        kept == DOMAIN e.indices \ e.aliases[a]
    IN IF ~Accepts(p, token, e) THEN e
       ELSE [indices |->
                [n \in kept \cup {new} |->
                    IF n = new THEN StoredFrom(a, p.data[docs_key(a)])
                    ELSE e.indices[n]],
             aliases |-> [e.aliases EXCEPT ![a] = {new}],
             snapshot |-> [e.snapshot EXCEPT ![a] = p.data]]

\* C16: every step of a collection's pipeline leaves the alias, the
\* indices and the snapshot of every other collection as they were; and
\* when the pipelines of two collections, interleaved in any way, have
\* both ended without raising, engine and snapshots are what processing
\* the first collection and then the second, each from the same source
\* data, leaves.
C16_CollectionsIndependent ==
    /\ [][\A b \in Aliases \ {alias} :
            /\ aliases'[b] = aliases[b]
            /\ snapshot'[b] = snapshot[b]
            /\ IndicesOf(b, indices') = IndicesOf(b, indices)]_vars
    /\ [](pc = "done" /\ parked # None /\ parked.pc = "done"
            /\ result \notin Exceptions /\ parked.result \notin Exceptions
            => LET first == IF cur = 1 THEN Pipeline ELSE parked
                   second == IF cur = 1 THEN parked ELSE Pipeline
               IN \E t1, t2 \in Tokens :
                     [indices |-> indices, aliases |-> aliases,
                      snapshot |-> snapshot]
                        = AloneOn(second, t2, AloneOn(first, t1, pre)))

\* C16, witness: both pipelines have ended ok, and one of them replaced
\* the index of an earlier run
C16_Witness ==
    /\ pc = "done"
    /\ parked # None
    /\ parked.pc = "done"
    /\ result = "ok"
    /\ parked.result = "ok"
    /\ \E a \in Aliases :
          pre.aliases[a] # {} /\ aliases[a] # pre.aliases[a]

\* C17: every operation submitted is a 'create'; of two documents with the
\* same id, the first of which the engine created, the second is answered
\* with an error that is counted and logged, and the new index keeps the
\* first document under that id; and insert_documents goes on to the last
\* document of the dataset.
C17_CreateNeverOverwrites ==
    pc \in {"insert_documents", "update_aliases"} =>
        /\ \A k \in DOMAIN submitted : submitted[k].op_type = "create"
        /\ \A j \in 1..pos : \A i \in 1..(j - 1) :
              /\ docs[i].id = docs[j].id
              /\ ~Refused(alias, docs, i)
              => /\ indices[new_index][docs[j].id] = filter_doc(alias, docs[i])
                 /\ \E k \in DOMAIN reported : reported[k] = docs[j].id
        /\ errors = Cardinality({j \in 1..pos : Refused(alias, docs, j)})
        /\ pc = "update_aliases" => pos = Len(docs)

\* C17, witness: the second document had the id of the first, and the
\* third was created after it was refused
C17_Witness ==
    /\ pc = "update_aliases"
    /\ docs = <<DocA, DocB, DocP>>
    /\ errors = 1
    /\ creations = 2
    /\ indices[new_index][DocA.id].nombre = DocA.nombre

\* C18: a forced run whose backup pipeline is not ok (the backup is
\* unreadable or incompatible) ends failed, with engine and snapshot as
\* create_or_reindex found them and no index creation, ingest, alias
\* update, index deletion or snapshot write issued; a collection only ends
\* failed that way; the backup is only read in a forced run whose primary
\* pipeline was not ok and had changed nothing; and once read it is not
\* read again for that collection.
C18_ForcedBothNotOkFails ==
    /\ [](pc = "done" /\ forced /\ source = "backup"
            /\ (data = None \/ Major(data.version) # Major(FILE_VERSION))
            => /\ result = "failed"
               /\ Untouched
               /\ \A e \in issued : e[2] \notin Writes \cup {"write_backup"})
    /\ [](pc = "done" /\ result = "failed"
            => /\ forced /\ source = "backup" /\ ~ok
               /\ Untouched
               /\ <<"backup", "write_backup">> \notin issued)
    /\ [](<<"backup", "fetch">> \in issued
            => /\ forced /\ source = "backup"
               /\ \/ <<"primary", "no_data">> \in issued
                  \/ <<"primary", "incompatible">> \in issued
               /\ \A e \in issued : e[1] = "primary" => e[2] \notin Writes)
    /\ [][source = "backup" /\ pc # "done"
            => source' = "backup" /\ data' = data]_vars

\* C18, witness: a forced run on an incompatible primary dataset and an
\* unreadable backup has ended failed, the alias still on its index
C18_Witness ==
    /\ pc = "done"
    /\ forced
    /\ result = "failed"
    /\ <<"primary", "incompatible">> \in issued
    /\ <<"backup", "no_data">> \in issued
    /\ aliases[alias] # {}

\* C19: in a non-forced run the timestamp in the name of the index the
\* alias resolves to is never smaller than the one create_or_reindex found
\* there, and it is greater whenever the alias resolves to another index.
C19_AliasedTimestampMonotone ==
    cur > 0 /\ ~forced =>
        \A x \in pre.aliases[alias] : \A y \in aliases[alias] :
            /\ LastField(y) >= LastField(x)
            /\ y # x => LastField(y) > LastField(x)

\* C20: when the processing of a collection ends, however it ends, an
\* index created for it in this run is the one its alias resolves to, an
\* index the alias no longer resolves to does not exist any more, and if
\* every index of the collection was the aliased one before, that is still
\* so.
C20_NoOrphanedIndices ==
    pc = "done" =>
        /\ \A n \in DOMAIN indices \ DOMAIN pre.indices :
              n \in aliases[alias]
        /\ \A x \in pre.aliases[alias] \ aliases[alias] :
              x \notin DOMAIN indices
        /\ (\A n \in DOMAIN pre.indices :
               n[1] = alias => n \in pre.aliases[alias])
           => \A n \in DOMAIN indices :
                 n[1] = alias => n \in aliases[alias]

=============================================================================
